---- MODULE Spec2Model ----
(***************************************************************************)
(* Model of proxy_tools/proxy_bot.py: fetch a list of tg:// proxy links,   *)
(* probe each one concurrently over a raw socket, deduplicate and rank the *)
(* reachable ones and publish the best into a Telegram post.               *)
(*                                                                         *)
(* Text is a sequence of tokens.  A token is either one whitespace         *)
(* character (" ", "\r", "\n", "\t") or an unbreakable run of other        *)
(* characters ("tg://", "server", "443", ...).  Time is counted in whole   *)
(* seconds, latencies are reported in milliseconds as the code does.       *)
(***************************************************************************)
EXTENDS Integers, Sequences, FiniteSets, TLC

VARIABLES
    phase,      \* position of main(): start, fetched, probing, checked, posting, done, crashed
    response,   \* what the HTTP GET of PROXY_LIST_URL is going to answer
    proxies,    \* raw_proxies, the list returned by get_proxies
    pc,         \* per probe: connecting, draining, reading, closing, done
    rem,        \* per probe: whether the remote end answers the wait the probe is in
    trace,      \* per probe: the events the probe has seen, in order
    host,       \* per probe: the local variable host, None until it is assigned
    tconn,      \* per probe: seconds from start_time to the completion of the connect
    opened,     \* per probe: open_connection returned a (reader, writer) pair
    closed,     \* per probe: writer.close() has been called
    pending,    \* per probe: the tuple to return once wait_closed() is over
    result,     \* per probe: the tuple returned by check_proxy_socket
    doneOrder,  \* probe indices in the order the probes returned
    working,    \* the list returned by check_all_proxies
    ranked,     \* working_proxies after the sort in main
    lines,      \* the link lines of the message: <<number, link>>
    posts,      \* number of HTTP POSTs sent to the bot API
    outcome     \* what main logged last

vars == <<phase, response, proxies, pc, rem, trace, host, tconn, opened, closed,
          pending, result, doneOrder, working, ranked, lines, posts, outcome>>

probeVars == <<pc, rem, trace, host, tconn, opened, closed, pending, result,
               doneOrder>>
rankVars == <<working, ranked, lines, posts, outcome>>

-----------------------------------------------------------------------------
(* Configuration, proxy_bot.py lines 14-16 and the literals of the probe.  *)

CHECK_TIMEOUT == 10
MAX_PROXIES_TO_CHECK == 1000
MAX_PROXIES_TO_SEND == 5
READ_TIMEOUT == 2
MS_PER_SECOND == 1000

(* Bounds of the exploration. *)
MaxLines == 2       \* lines of a short proxy list
MaxDelay == 0       \* longest connect delay, in seconds, that is not a timeout
MaxBody == 4        \* tokens of a body in the fetch exploration
MaxResults == 6     \* probe results in the ranking exploration

None == <<>>        \* Python's None (and the falsy empty value)

Min2(a, b) == IF a <= b THEN a ELSE b

First(S) == CHOOSE x \in S : \A y \in S : x <= y

-----------------------------------------------------------------------------
(* str.strip and str.split.                                                *)

Whitespace == {" ", "\r", "\n", "\t"}

strip(text) ==
    LET black == {i \in 1..Len(text) : text[i] \notin Whitespace}
    IN  IF black = {} THEN <<>>
        ELSE SubSeq(text, First(black),
                    CHOOSE x \in black :
                        \A y \in (x + 1)..Len(text) : text[y] \in Whitespace)

(* text.split(sep): the pieces between the separators, at least one. *)
split(text, sep) ==
    LET at == SelectSeq([i \in 1..Len(text) |-> i], LAMBDA i : text[i] = sep)
    IN  [k \in 1..(Len(at) + 1) |->
            SubSeq(text,
                   IF k = 1 THEN 1 ELSE at[k - 1] + 1,
                   IF k > Len(at) THEN Len(text) ELSE at[k] - 1)]

-----------------------------------------------------------------------------
(* get_proxies, lines 18-29.  The GET either fails (transport error, or a  *)
(* status that raise_for_status rejects) or delivers a body.               *)

get_proxies(resp) ==
    IF resp.status # "ok" THEN <<>>
    ELSE split(strip(resp.text), "\n")

-----------------------------------------------------------------------------
(* parse_tg_link, lines 31-49.                                             *)

startswith(link, prefix) == Len(link) >= 1 /\ link[1] = prefix

(* urlparse(link).query: what follows the first "?" of the part in front   *)
(* of the first "#".                                                       *)
urlparse_query(link) ==
    LET hashes == {i \in 1..Len(link) : link[i] = "#"}
        url == IF hashes = {} THEN link ELSE SubSeq(link, 1, First(hashes) - 1)
        marks == {i \in 1..Len(url) : url[i] = "?"}
    IN  IF marks = {} THEN <<>> ELSE SubSeq(url, First(marks) + 1, Len(url))

(* One name=value field of a query: <<name, value>>, value empty when the  *)
(* field has no "=".                                                       *)
partition(field) ==
    LET eqs == {i \in 1..Len(field) : field[i] = "="}
    IN  IF eqs = {} THEN <<field, <<>>>>
        ELSE <<SubSeq(field, 1, First(eqs) - 1),
               SubSeq(field, First(eqs) + 1, Len(field))>>

(* parse_qs(query): the fields in order, blank values dropped. *)
parse_qs(query) ==
    LET fields == split(query, "&")
        pairs == [k \in 1..Len(fields) |-> partition(fields[k])]
    IN  SelectSeq(pairs, LAMBDA nv : Len(nv[2]) > 0)

(* params.get(key, [None])[0]: the first value given for key. *)
params_get(params, key) ==
    LET hits == {k \in 1..Len(params) : params[k][1] = <<key>>}
    IN  IF hits = {} THEN None ELSE params[First(hits)][2]

(* int(): the port texts of the exploration that int() accepts, and their  *)
(* values; int() raises ValueError for every other text.                   *)
PyInt == ("443" :> 443) @@ ("8443" :> 8443) @@ ("0" :> 0) @@ ("-1" :> 0 - 1)

int_ok(value) == Len(value) = 1 /\ value[1] \in DOMAIN PyInt
int(value) == PyInt[value[1]]

parse_tg_link_nocheck(link) ==
    LET params == parse_qs(urlparse_query(link))
        server == params_get(params, "server")
        port == params_get(params, "port")
        secret == params_get(params, "secret")
    IN  IF server # None /\ port # None /\ secret # None
        THEN IF int_ok(port) THEN <<server, int(port), secret>> ELSE None
        ELSE None

parse_tg_link(link) ==
    IF ~startswith(link, "tg://") THEN None
    ELSE LET params == parse_qs(urlparse_query(link))
             server == params_get(params, "server")
             port == params_get(params, "port")
             secret == params_get(params, "secret")
         IN  IF server # None /\ port # None /\ secret # None
             THEN IF int_ok(port)
                  THEN <<server, int(port), secret>>
                  ELSE None      \* ValueError, caught at line 48
             ELSE None

-----------------------------------------------------------------------------
(* The remote end.  When a probe starts to wait for the remote end, the    *)
(* remote end either answers that wait at some time or stays silent for    *)
(* good.  drain() of a 64-byte payload and wait_closed() after close() do  *)
(* not wait for the remote end.                                            *)

RemoteAnswers == {"answers", "silent"}

(* What can end "await asyncio.wait_for(asyncio.open_connection(host,      *)
(* port), timeout=CHECK_TIMEOUT)", lines 64-67.                            *)
connect_wakeups(answer) ==
    IF answer = "answers" THEN {"connected", "error"} ELSE {"timeout"}

(* What can end "await asyncio.wait_for(reader.read(1), timeout=2.0)",     *)
(* line 82.                                                                *)
read_wakeups_untimed(answer) ==
    IF answer = "answers" THEN {"eof", "data", "error"} ELSE {}

read_wakeups(answer) ==
    IF answer = "answers" THEN {"eof", "data", "error"} ELSE {"timeout"}

(* Delays of the events that arrive before a timeout, in seconds. *)
ConnectDelays == 0..Min2(MaxDelay, CHECK_TIMEOUT - 1)
ReadDelays == 0..(READ_TIMEOUT - 1)

-----------------------------------------------------------------------------
(* check_proxy_socket, lines 51-101.                                       *)

NoResult == <<>>

(* "except Exception: return False, 0, proxy_link, host", lines 100-101.   *)
(* exc tells whether the exception leaves check_proxy_socket.              *)
probe_except_reraise(link, ip) ==
    [exc |-> TRUE, val |-> <<FALSE, 0, link, ip>>]

probe_except(link, ip) ==
    [exc |-> FALSE, val |-> <<FALSE, 0, link, ip>>]

returned(val) == [exc |-> FALSE, val |-> val]

(* latency = (time.time() - start_time) * 1000, line 95, taken when        *)
(* elapsed seconds have passed since start_time.                           *)
latency_ms(elapsed) == elapsed * MS_PER_SECOND

Launched == DOMAIN pc
Link(i) == proxies[i]
NextOrdinal == Cardinality({i \in Launched : pc[i] = "done"}) + 1

(* The probe's coroutine ends with ret after the event ev; an exception    *)
(* that escapes it is re-raised by gather and run_until_complete and ends  *)
(* main.                                                                   *)
Finish(i, ev, ret) ==
    /\ pc' = [pc EXCEPT ![i] = "done"]
    /\ rem' = [rem EXCEPT ![i] = "-"]
    /\ trace' = [trace EXCEPT ![i] = Append(@, ev)]
    /\ pending' = [pending EXCEPT ![i] = NoResult]
    /\ result' = [result EXCEPT ![i] = IF ret.exc THEN NoResult ELSE ret.val]
    /\ doneOrder' = [doneOrder EXCEPT ![i] = NextOrdinal]
    /\ phase' = IF ret.exc THEN "crashed" ELSE phase

(* open_connection returned in time: the payload is written, the probe     *)
(* is in drain(), lines 64-74.                                             *)
ConnectDone(i) ==
    /\ phase = "probing" /\ pc[i] = "connecting"
    /\ "connected" \in connect_wakeups(rem[i])
    /\ \E d \in ConnectDelays : tconn' = [tconn EXCEPT ![i] = d]
    /\ opened' = [opened EXCEPT ![i] = TRUE]
    /\ pc' = [pc EXCEPT ![i] = "draining"]
    /\ trace' = [trace EXCEPT ![i] = Append(@, "connected")]
    /\ UNCHANGED <<phase, response, proxies, rem, host, closed, pending,
                   result, doneOrder>>
    /\ UNCHANGED rankVars

(* open_connection raised (refused, unreachable), lines 64 and 100-101. *)
ConnectFail(i) ==
    /\ phase = "probing" /\ pc[i] = "connecting"
    /\ "error" \in connect_wakeups(rem[i])
    /\ Finish(i, "connect_error", probe_except(Link(i), host[i]))
    /\ UNCHANGED <<response, proxies, host, tconn, opened, closed>>
    /\ UNCHANGED rankVars

(* wait_for gave up after CHECK_TIMEOUT seconds and raised TimeoutError,   *)
(* lines 64-67 and 100-101.                                                *)
ConnectTimeout(i) ==
    /\ phase = "probing" /\ pc[i] = "connecting"
    /\ "timeout" \in connect_wakeups(rem[i])
    /\ Finish(i, "connect_timeout", probe_except(Link(i), host[i]))
    /\ UNCHANGED <<response, proxies, host, tconn, opened, closed>>
    /\ UNCHANGED rankVars

(* drain() returned: the probe waits in the 1-byte read, lines 74-82.      *)
DrainDone(i) ==
    /\ phase = "probing" /\ pc[i] = "draining"
    /\ \E a \in RemoteAnswers : rem' = [rem EXCEPT ![i] = a]
    /\ pc' = [pc EXCEPT ![i] = "reading"]
    /\ trace' = [trace EXCEPT ![i] = Append(@, "drained")]
    /\ UNCHANGED <<phase, response, proxies, host, tconn, opened, closed,
                   pending, result, doneOrder>>
    /\ UNCHANGED rankVars

(* drain() raised (connection lost), lines 74 and 100-101. *)
DrainFail(i) ==
    /\ phase = "probing" /\ pc[i] = "draining"
    /\ Finish(i, "drain_error", probe_except(Link(i), host[i]))
    /\ UNCHANGED <<response, proxies, host, tconn, opened, closed>>
    /\ UNCHANGED rankVars

(* A step that ends with writer.close() and then waits in wait_closed()    *)
(* with the tuple to return afterwards.                                    *)
CloseWith(i, ev, val) ==
    /\ closed' = [closed EXCEPT ![i] = TRUE]
    /\ pending' = [pending EXCEPT ![i] = val]
    /\ pc' = [pc EXCEPT ![i] = "closing"]
    /\ trace' = [trace EXCEPT ![i] = Append(@, ev)]
    /\ rem' = [rem EXCEPT ![i] = "answers"]
    /\ UNCHANGED <<phase, response, proxies, host, tconn, opened, result,
                   doneOrder>>
    /\ UNCHANGED rankVars

(* read(1) returned b"": lines 82-86. *)
ReadEOF(i) ==
    /\ phase = "probing" /\ pc[i] = "reading"
    /\ "eof" \in read_wakeups(rem[i])
    /\ CloseWith(i, "eof", <<FALSE, 0, Link(i), host[i]>>)

(* read(1) returned a byte after r seconds: lines 82-83, 95-97. *)
ReadData(i) ==
    /\ phase = "probing" /\ pc[i] = "reading"
    /\ "data" \in read_wakeups(rem[i])
    /\ \E r \in ReadDelays :
          CloseWith(i, "data", <<TRUE, latency_ms(tconn[i] + r), Link(i),
                                 host[i]>>)

(* wait_for gave up after 2 seconds: lines 82, 87-89, 95-97. *)
ReadTimeout(i) ==
    /\ phase = "probing" /\ pc[i] = "reading"
    /\ "timeout" \in read_wakeups(rem[i])
    /\ CloseWith(i, "read_timeout",
                 <<TRUE, latency_ms(tconn[i] + READ_TIMEOUT), Link(i),
                   host[i]>>)

(* read(1) raised: lines 82, 90-93. *)
ReadFail(i) ==
    /\ phase = "probing" /\ pc[i] = "reading"
    /\ "error" \in read_wakeups(rem[i])
    /\ CloseWith(i, "read_error", <<FALSE, 0, Link(i), host[i]>>)

(* wait_closed() returned: the prepared tuple is returned, lines 85-86,    *)
(* 92-93, 97-98.                                                           *)
CloseDone(i) ==
    /\ phase = "probing" /\ pc[i] = "closing"
    /\ Finish(i, "closed", returned(pending[i]))
    /\ UNCHANGED <<response, proxies, host, tconn, opened, closed>>
    /\ UNCHANGED rankVars

(* wait_closed() raised: the outer handler answers, lines 85, 92, 97 and   *)
(* 100-101.                                                                *)
CloseFail(i) ==
    /\ phase = "probing" /\ pc[i] = "closing"
    /\ Finish(i, "close_error", probe_except(Link(i), host[i]))
    /\ UNCHANGED <<response, proxies, host, tconn, opened, closed>>
    /\ UNCHANGED rankVars

-----------------------------------------------------------------------------
(* check_all_proxies, lines 103-124.                                       *)

(* proxies[:MAX_PROXIES_TO_CHECK], line 109. *)
candidates_uncapped(list) == list

candidates(list) == SubSeq(list, 1, Min2(Len(list), MAX_PROXIES_TO_CHECK))

(* asyncio.gather over the tasks, line 113: the results, in the order of  *)
(* tasks handed in.  order[i] is the position of task i among the          *)
(* completions.                                                            *)
gather_as_completed(res, order) ==
    [k \in 1..Len(res) |-> res[CHOOSE i \in 1..Len(res) : order[i] = k]]

gather(res, order) == res

(* The loop of lines 115-122 from position from on; iterations over failed *)
(* results change nothing and are stepped over.                            *)
RECURSIVE dedup_from(_, _, _, _)
dedup_from(results, from, seen_ips, acc) ==
    LET succ == {k \in from..Len(results) : results[k][1]}
    IN  IF succ = {} THEN acc
        ELSE LET k == First(succ)
                 link == results[k][3]
                 latency == results[k][2]
                 ip == results[k][4]
             IN  IF ip # None /\ ip \notin seen_ips
                 THEN dedup_from(results, k + 1, seen_ips \cup {ip},
                                 Append(acc, <<link, latency, ip>>))
                 ELSE dedup_from(results, k + 1, seen_ips, acc)

dedup(results) == dedup_from(results, 1, {}, <<>>)

(* check_all_proxies up to its await: one task per candidate; the event    *)
(* loop then runs every task up to its first await, in the order of        *)
(* creation, so a probe of an unparsable link has returned (lines 56-58)   *)
(* and the others wait for their connection (lines 62-67).                 *)
Launch ==
    /\ phase = "fetched"
    /\ \E cand \in {candidates(proxies)} :
       \E valid \in {{i \in 1..Len(cand) : parse_tg_link(cand[i]) # None}} :
       \E rank \in {[i \in 1..Len(cand) |-> Cardinality({j \in valid : j < i})]} :
       \E a \in [valid -> RemoteAnswers] :
           /\ pc' = [i \in 1..Len(cand) |->
                       IF i \in valid THEN "connecting" ELSE "done"]
           /\ rem' = [i \in 1..Len(cand) |-> IF i \in valid THEN a[i] ELSE "-"]
           /\ trace' = [i \in 1..Len(cand) |->
                          IF i \in valid THEN <<>> ELSE <<"invalid">>]
           /\ host' = [i \in 1..Len(cand) |->
                         IF i \in valid THEN parse_tg_link(cand[i])[1] ELSE None]
           /\ tconn' = [i \in 1..Len(cand) |-> 0]
           /\ opened' = [i \in 1..Len(cand) |-> FALSE]
           /\ closed' = [i \in 1..Len(cand) |-> FALSE]
           /\ pending' = [i \in 1..Len(cand) |-> NoResult]
           /\ result' = [i \in 1..Len(cand) |->
                           IF i \in valid THEN NoResult
                           ELSE <<FALSE, 0, cand[i], None>>]
           /\ doneOrder' = [i \in 1..Len(cand) |->
                              IF i \in valid THEN 0 ELSE i - rank[i]]
    /\ phase' = "probing"
    /\ UNCHANGED <<response, proxies>>
    /\ UNCHANGED rankVars

(* gather delivered: lines 113-124, and run_until_complete returns to main. *)
CheckAllReturn ==
    /\ phase = "probing"
    /\ {i \in Launched : pc[i] # "done"} = {}
    /\ working' = dedup(gather(result, doneOrder))
    /\ phase' = "checked"
    /\ UNCHANGED <<response, proxies, ranked, lines, posts, outcome>>
    /\ UNCHANGED probeVars

-----------------------------------------------------------------------------
(* main, lines 160-202, and send_telegram_message, lines 204-232.          *)

(* list.sort(key=lambda x: x[1]), line 171: stable, ascending. *)
insert_sorted_before(sorted, x) ==
    LET le == {k \in 1..Len(sorted) : sorted[k][2] < x[2]}
        at == Cardinality(le)
    IN  SubSeq(sorted, 1, at) \o <<x>> \o SubSeq(sorted, at + 1, Len(sorted))

insert_sorted(sorted, x) ==
    LET le == {k \in 1..Len(sorted) : sorted[k][2] <= x[2]}
        at == Cardinality(le)
    IN  SubSeq(sorted, 1, at) \o <<x>> \o SubSeq(sorted, at + 1, Len(sorted))

RECURSIVE sort_by_latency(_)
sort_by_latency(list) ==
    IF list = <<>> THEN <<>>
    ELSE insert_sorted(sort_by_latency(SubSeq(list, 1, Len(list) - 1)),
                       list[Len(list)])

format_telegram_link(proxy_str) == proxy_str

(* The loop of lines 188-197 from position k on with count lines written. *)
RECURSIVE link_lines(_, _, _, _)
link_lines(list, k, count, acc) ==
    IF k > Len(list) \/ count >= MAX_PROXIES_TO_SEND THEN acc
    ELSE LET link == format_telegram_link(list[k][1])
         IN  IF link # <<>>
             THEN link_lines(list, k + 1, count + 1,
                             Append(acc, <<count + 1, link>>))
             ELSE link_lines(list, k + 1, count, acc)

(* get_proxies called from main, line 164. *)
GetProxies ==
    /\ phase = "start"
    /\ proxies' = get_proxies(response)
    /\ phase' = "fetched"
    /\ UNCHANGED response
    /\ UNCHANGED probeVars
    /\ UNCHANGED rankVars

(* Lines 171-202 and 204-228: sort, give up when nothing works, build the  *)
(* message, and send the request unless the token is missing.              *)
MainRank ==
    /\ phase = "checked"
    /\ \E BOT_TOKEN_set \in BOOLEAN :
       LET sorted == sort_by_latency(working)
       IN  /\ ranked' = sorted
           /\ IF sorted = <<>>
              THEN /\ outcome' = "no_working"
                   /\ phase' = "done"
                   /\ UNCHANGED <<lines, posts>>
              ELSE /\ lines' = link_lines(sorted, 1, 0, <<>>)
                   /\ IF ~BOT_TOKEN_set
                      THEN /\ outcome' = "no_token"
                           /\ phase' = "done"
                           /\ posts' = posts
                      ELSE /\ outcome' = "sending"
                           /\ phase' = "posting"
                           /\ posts' = posts + 1
    /\ UNCHANGED <<response, proxies, working>>
    /\ UNCHANGED probeVars

(* The POST succeeded, lines 228-230. *)
PostOk ==
    /\ phase = "posting"
    /\ outcome' = "published"
    /\ phase' = "done"
    /\ UNCHANGED <<response, proxies, working, ranked, lines, posts>>
    /\ UNCHANGED probeVars

(* The POST failed or raise_for_status raised (e.g. HTTP 400): the error   *)
(* is printed, lines 231-232.                                              *)
PostFail ==
    /\ phase = "posting"
    /\ outcome' = "publish_failed"
    /\ phase' = "done"
    /\ UNCHANGED <<response, proxies, working, ranked, lines, posts>>
    /\ UNCHANGED probeVars

-----------------------------------------------------------------------------
(* The proxy list feed: links of the form                                  *)
(* tg://proxy?server=...&port=...&secret=... (line 34), one per line.      *)

Field(name, value) == <<name, "=">> \o value

LinkOf(scheme, server, port, secret) ==
    <<scheme, "proxy", "?">> \o Field("server", server) \o <<"&">>
        \o Field("port", port) \o <<"&">> \o Field("secret", secret)

LinkA1 == LinkOf("tg://", <<"h1">>, <<"443">>, <<"ee00">>)
LinkA2 == LinkOf("tg://", <<"h1">>, <<"8443">>, <<"ee00">>)
LinkB == LinkOf("tg://", <<"h2">>, <<"443">>, <<"ee00">>)
LinkBadPort == LinkOf("tg://", <<"h2">>, <<"4x3">>, <<"ee00">>)
Junk == <<"x">>

(* The lines a short list may have at position k. *)
FeedAt(k) ==
    IF k % 2 = 1 THEN {LinkA1, Junk} ELSE {LinkA2, LinkB, LinkBadPort}

RECURSIVE ListsUpTo(_)
ListsUpTo(n) ==
    IF n = 0 THEN {<<>>}
    ELSE LET shorter == ListsUpTo(n - 1)
         IN  shorter \cup {Append(l, x) : l \in {m \in shorter : Len(m) = n - 1},
                                          x \in FeedAt(n)}

RECURSIVE BodyOf(_)
BodyOf(list) ==
    IF list = <<>> THEN <<>>
    ELSE list[1] \o <<"\n">> \o BodyOf(SubSeq(list, 2, Len(list)))

(* A list longer than MAX_PROXIES_TO_CHECK: the last line that is checked  *)
(* and the first that is not are links, the lines in front are not.        *)
LongBody ==
    [k \in 1..(2 * (MAX_PROXIES_TO_CHECK - 1)) |->
        IF k % 2 = 1 THEN "x" ELSE "\n"]
      \o LinkA2 \o <<"\n">> \o LinkB \o <<"\n">>

Bodies == {BodyOf(l) : l \in ListsUpTo(MaxLines)} \cup {LongBody}

Responses ==
    {[status |-> "ok", text |-> b] : b \in Bodies}
      \cup {[status |-> st, text |-> <<>>] : st \in {"http_error", "conn_error"}}

-----------------------------------------------------------------------------

InitRest ==
    /\ phase = "start"
    /\ proxies = <<>>
    /\ pc = <<>> /\ rem = <<>> /\ trace = <<>> /\ host = <<>> /\ tconn = <<>> /\ opened = <<>>
    /\ closed = <<>> /\ pending = <<>> /\ result = <<>> /\ doneOrder = <<>>
    /\ working = <<>> /\ ranked = <<>> /\ lines = <<>>
    /\ posts = 0 /\ outcome = "none"

Init ==
    /\ response \in Responses
    /\ InitRest

ProbeStep(i) ==
    \/ ConnectDone(i) \/ ConnectFail(i) \/ ConnectTimeout(i)
    \/ DrainDone(i) \/ DrainFail(i)
    \/ ReadEOF(i) \/ ReadData(i) \/ ReadTimeout(i) \/ ReadFail(i)
    \/ CloseDone(i) \/ CloseFail(i)

Next ==
    \/ GetProxies
    \/ Launch
    \/ \E i \in Launched : ProbeStep(i)
    \/ CheckAllReturn
    \/ MainRank
    \/ PostOk
    \/ PostFail

Spec == Init /\ [][Next]_vars

(* The event loop runs a callback that is ready and fires a timer that is  *)
(* due: a probe that can step and a gather that can deliver eventually do. *)
LiveSpec ==
    /\ Init /\ [][Next]_vars
    /\ WF_vars(\E i \in Launched : ProbeStep(i))
    /\ WF_vars(CheckAllReturn)

-----------------------------------------------------------------------------
(* A run over a list of one line, the line drawn from links with a right   *)
(* or wrong scheme, with each parameter given, blank or missing, and with  *)
(* the secret in front of or behind a "#".                                 *)

GenLinks ==
    [scheme : {"tg://", "https://"},
     server : {"absent", "blank", "h1"},
     port : {"absent", "blank", "443", "4x3", "-1"},
     secret : {"absent", "blank", "ee00"},
     hash : BOOLEAN]

GenField(name, v) ==
    IF v = "absent" THEN <<>>
    ELSE IF v = "blank" THEN <<name, "=">> ELSE <<name, "=", v>>

Render(g) ==
    <<g.scheme, "proxy", "?">> \o GenField("server", g.server) \o <<"&">>
        \o GenField("port", g.port) \o <<"&">>
        \o (IF g.hash THEN <<"#">> ELSE <<>>)
        \o GenField("secret", g.secret)

ParseInit ==
    /\ response \in {[status |-> "ok", text |-> Render(g) \o <<"\n">>] :
                        g \in GenLinks}
    /\ InitRest

ParseSpec == ParseInit /\ [][Next]_vars

-----------------------------------------------------------------------------
(* The fetch alone, over every body of a few characters.                   *)

FetchTokens == {"a", " ", "\r", "\n"}

RECURSIVE TextsUpTo(_)
TextsUpTo(n) ==
    IF n = 0 THEN {<<>>}
    ELSE LET shorter == TextsUpTo(n - 1)
         IN  shorter \cup {Append(t, c) : t \in {u \in shorter : Len(u) = n - 1},
                                          c \in FetchTokens}

FetchInit ==
    /\ response \in
          {[status |-> "ok", text |-> b] : b \in TextsUpTo(MaxBody)}
            \cup {[status |-> st, text |-> <<>>] :
                     st \in {"http_error", "conn_error"}}
    /\ InitRest

FetchNext == GetProxies

FetchSpec == FetchInit /\ [][FetchNext]_vars

-----------------------------------------------------------------------------
(* The ranking alone: the run from the moment the last probe has returned, *)
(* over lists of results.  The probe at position k has failed, or is       *)
(* reachable after 1 or 2 seconds; its link names a host of its own or,    *)
(* on another port, the host of the first link.                            *)

HostNames == <<"h1", "h2", "h3", "h4", "h5", "h6", "h7", "h8", "h9">>

RankOptions(k) ==
    {[ok |-> FALSE, lat |-> 0, h |-> k]}
      \cup {[ok |-> TRUE, lat |-> latency_ms(e), h |-> h] :
               e \in {1, READ_TIMEOUT}, h \in {1, k}}

RECURSIVE RankInputs(_)
RankInputs(n) ==
    IF n = 0 THEN {<<>>}
    ELSE LET shorter == RankInputs(n - 1)
         IN  shorter \cup {Append(l, o) : l \in {m \in shorter : Len(m) = n - 1},
                                          o \in RankOptions(n)}

RankLink(k, o) ==
    LinkOf("tg://", <<HostNames[o.h]>>,
           IF o.h = k THEN <<"443">> ELSE <<"8443">>, <<"ee00">>)

RankInit ==
    /\ response = [status |-> "ok", text |-> <<>>]
    /\ phase = "probing"
    /\ \E in \in RankInputs(MaxResults) :
          /\ proxies = [k \in 1..Len(in) |-> RankLink(k, in[k])]
          /\ pc = [k \in 1..Len(in) |-> "done"]
          /\ rem = [k \in 1..Len(in) |-> "-"]
          /\ trace = [k \in 1..Len(in) |->
                        IF ~in[k].ok THEN <<"connect_error">>
                        ELSE IF in[k].lat = latency_ms(READ_TIMEOUT)
                             THEN <<"connected", "drained", "read_timeout",
                                    "closed">>
                             ELSE <<"connected", "drained", "data", "closed">>]
          /\ host = [k \in 1..Len(in) |-> <<HostNames[in[k].h]>>]
          /\ tconn = [k \in 1..Len(in) |-> 0]
          /\ opened = [k \in 1..Len(in) |-> in[k].ok]
          /\ closed = [k \in 1..Len(in) |-> in[k].ok]
          /\ pending = [k \in 1..Len(in) |-> NoResult]
          /\ result = [k \in 1..Len(in) |->
                         <<in[k].ok, in[k].lat, RankLink(k, in[k]),
                           <<HostNames[in[k].h]>>>>]
          /\ doneOrder = [k \in 1..Len(in) |-> k]
    /\ working = <<>> /\ ranked = <<>> /\ lines = <<>>
    /\ posts = 0 /\ outcome = "none"

RankNext == CheckAllReturn \/ MainRank

RankSpec == RankInit /\ [][RankNext]_vars

-----------------------------------------------------------------------------
(* Helpers of the properties.                                              *)

Returned == {i \in Launched : pc[i] = "done" /\ result[i] # NoResult}
Seen(i, ev) == \E k \in 1..Len(trace[i]) : trace[i][k] = ev
AfterCheck == {"checked", "posting", "done"}
Reachable(i) ==
    /\ pc[i] = "done" /\ result[i] # NoResult
    /\ result[i][1] /\ result[i][4] # None
SameHost(i, j) == result[i][4] = result[j][4]
EntryOf(i) == <<result[i][3], result[i][2], result[i][4]>>

(* C1: a probe that has returned after its connection was established has *)
(* closed that connection, whatever exit path it took.                     *)
C1_ClosedOnEveryExit ==
    \A i \in Launched : (pc[i] = "done" /\ opened[i]) => closed[i]

(* C2, as stated: of the reachable results of one host, check_all_proxies  *)
(* keeps the one whose probe returned first.                               *)
C2_KeepsFirstCompleted ==
    phase \in AfterCheck =>
        \A k \in 1..Len(working) :
            \E i \in Launched :
                /\ Reachable(i) /\ working[k] = EntryOf(i)
                /\ \A j \in Launched :
                      (Reachable(j) /\ SameHost(i, j))
                          => doneOrder[i] <= doneOrder[j]

(* C2, amended: of the reachable results of one host, check_all_proxies    *)
(* keeps the one that comes first in the candidate list, whatever the      *)
(* order in which the probes returned; every reachable host is kept once.  *)
C2_KeepsFirstListed ==
    phase \in AfterCheck =>
        /\ \A k \in 1..Len(working) :
              \E i \in Launched :
                  /\ Reachable(i) /\ working[k] = EntryOf(i)
                  /\ \A j \in 1..(i - 1) : ~(Reachable(j) /\ SameHost(i, j))
        /\ \A i \in Launched :
              Reachable(i) =>
                  Cardinality({k \in 1..Len(working) :
                                  working[k][3] = result[i][4]}) = 1

C2_Witness ==
    /\ phase = "checked"
    /\ \E i, j \in Launched :
          /\ i < j /\ Reachable(i) /\ Reachable(j) /\ SameHost(i, j)
          /\ EntryOf(i) # EntryOf(j)
          /\ doneOrder[j] < doneOrder[i]

(* C3: a probe whose connection was accepted and whose read timed out      *)
(* returns reachable with the connect time as latency.                     *)
C3_LatencyIsConnectTime ==
    \A i \in Launched :
        (pc[i] = "done" /\ Seen(i, "read_timeout"))
            => result[i] = <<TRUE, latency_ms(tconn[i]), Link(i),
                             host[i]>>

(* C4: the result of a probe of a well-formed link follows from the        *)
(* network events: failed or timed-out connect gives (false, 0), a read of *)
(* zero bytes gives not reachable, a read that times out or returns data   *)
(* gives reachable; not reachable comes with latency 0 and every result    *)
(* carries the link's host.                                                *)
C4_ResultFollowsEvents ==
    \A i \in Launched :
        (pc[i] = "done" /\ ~Seen(i, "invalid")) =>
            /\ result[i] # NoResult
            /\ (Seen(i, "connect_error") \/ Seen(i, "connect_timeout"))
                  => (~result[i][1] /\ result[i][2] = 0)
            /\ Seen(i, "eof") => ~result[i][1]
            /\ Seen(i, "read_timeout") => result[i][1]
            /\ Seen(i, "data") => result[i][1]
            /\ ~result[i][1] => result[i][2] = 0
            /\ result[i][4] = host[i]

(* C5: the link lines of the message are the first MAX_PROXIES_TO_SEND of  *)
(* the reachable results, one per host (the first listed), in ascending    *)
(* order of latency with ties in their original order, numbered from 1     *)
(* without gaps.                                                           *)
FirstOfHost(i) ==
    /\ Reachable(i)
    /\ \A j \in 1..(i - 1) : ~(Reachable(j) /\ SameHost(i, j))

Kept == {i \in Launched : FirstOfHost(i)}

RankOf(i) ==
    Cardinality({j \in Kept :
                    \/ result[j][2] < result[i][2]
                    \/ (result[j][2] = result[i][2] /\ j < i)}) + 1

C5_LinesAreTopRanked ==
    phase \in {"posting", "done"} =>
        /\ Len(lines) = Min2(Cardinality(Kept), MAX_PROXIES_TO_SEND)
        /\ \A n \in 1..Len(lines) :
              \E i \in Kept : RankOf(i) = n /\ lines[n] = <<n, Link(i)>>
        /\ \A m, n \in 1..Len(lines) :
              m < n => parse_tg_link(lines[m][2])[1]
                           # parse_tg_link(lines[n][2])[1]

C5_Witness ==
    /\ phase \in {"posting", "done"}
    /\ Cardinality(Kept) > MAX_PROXIES_TO_SEND
    /\ Len(lines) = MAX_PROXIES_TO_SEND
    /\ \E i, j \in Kept : i < j /\ result[j][2] < result[i][2]
    /\ \E i, j \in Kept : i < j /\ result[j][2] = result[i][2]
                            /\ RankOf(j) <= MAX_PROXIES_TO_SEND

(* C6: after a successful GET, get_proxies returns the non-empty lines of  *)
(* the body, each trimmed, in body order.                                  *)
TrimmedLines(text) ==
    LET raw == split(text, "\n")
    IN  SelectSeq([k \in 1..Len(raw) |-> strip(raw[k])],
                  LAMBDA line : line # <<>>)

C6_TrimmedNonEmptyLines ==
    (phase = "fetched" /\ response.status = "ok")
        => proxies = TrimmedLines(response.text)

(* C8: parse_tg_link gives (host, port, secret) exactly for a link with    *)
(* the tg:// prefix, a non-empty server and secret and an integer port,    *)
(* and None otherwise; the probe of a link it rejects returns              *)
(* (False, 0, link, None) without opening a connection and the link is     *)
(* not ranked.                                                             *)
Good(g) ==
    /\ g.scheme = "tg://"
    /\ g.server \notin {"absent", "blank"}
    /\ g.port \in DOMAIN PyInt
    /\ g.secret \notin {"absent", "blank"}
    /\ ~g.hash

C8_InvalidLinksAreDropped ==
    \A g \in GenLinks :
        response.text = Render(g) \o <<"\n">> =>
            /\ parse_tg_link(Render(g)) =
                  IF Good(g)
                  THEN <<<<g.server>>, PyInt[g.port], <<g.secret>>>>
                  ELSE None
            /\ (phase \notin {"start", "fetched"} /\ ~Good(g)) =>
                  /\ result = << <<FALSE, 0, Render(g), None>> >>
                  /\ opened = <<FALSE>>
                  /\ trace = << <<"invalid">> >>
                  /\ working = <<>> /\ ranked = <<>> /\ lines = <<>>
                  /\ posts = 0

C8_Witness ==
    /\ phase = "done"
    /\ trace = << <<"invalid">> >>
    /\ \E g \in GenLinks :
          /\ response.text = Render(g) \o <<"\n">>
          /\ g.scheme = "tg://" /\ g.server = "h1" /\ g.port = "4x3"
          /\ g.secret = "ee00" /\ ~g.hash

C9_AllProbesThenAggregate ==
    /\ phase \in ({"probing"} \cup AfterCheck) =>
          Launched = 1..Min2(Len(proxies), MAX_PROXIES_TO_CHECK)
    /\ phase \in AfterCheck =>
          /\ Returned = Launched
          /\ Len(result) = Min2(Len(proxies), MAX_PROXIES_TO_CHECK)
          /\ \A i \in Launched : result[i][3] = proxies[i]

C9_Witness ==
    /\ phase = "checked"
    /\ Len(proxies) > MAX_PROXIES_TO_CHECK
    /\ Cardinality(Launched) = MAX_PROXIES_TO_CHECK
    /\ \E i \in Launched : Reachable(i)

(* C10: once the probes are launched, every one of them returns and        *)
(* check_all_proxies hands its list to main, whatever the remote ends do.  *)
C10_ProbesTerminate ==
    (phase = "probing") ~> (phase = "checked" /\ Returned = Launched)

C10_Witness ==
    /\ phase = "checked"
    /\ \E i, j \in Launched :
          Seen(i, "connect_timeout") /\ Seen(j, "read_timeout")

====
